---------------------------- MODULE Spec2Model ----------------------------
(***************************************************************************)
(* Model of the dense matrix library (include/lin_alg/Matrix.hpp).         *)
(*                                                                         *)
(* A Matrix<T> is the record [rows, cols, data]; data is the row-major     *)
(* std::vector<T>.  The source indexes from 0 and TLA+ sequences from 1,   *)
(* so the element the source calls _data[k] is data[k + 1] here.           *)
(*                                                                         *)
(* The element type T of the elimination operations is an exact field:     *)
(* the rationals, each value held as the pair <<n, d>> in lowest terms     *)
(* with d > 0.  The template uses T only through T{}, T{1}, ==, +=, *=,    *)
(* *, / and unary -.                                                       *)
(***************************************************************************)
EXTENDS Integers, Sequences, FiniteSets, TLC

(***************************************************************************)
(* Bounds of the explored inputs.                                          *)
(***************************************************************************)
MaxDim == 2
MaxOps == 2
MaxNum == 3

Entries == {-1, 0, 1}
Scalars == {-1, 0, 2}
RhsEntries == {0, 1}

(***************************************************************************)
(* The element type T (exact field).                                       *)
(***************************************************************************)
Abs(x) == IF x < 0 THEN -x ELSE x

RECURSIVE Gcd(_, _)
Gcd(a, b) == IF b = 0 THEN a ELSE Gcd(b, a % b)

\* the value n/d (d # 0) as the unique pair in lowest terms with positive denominator
Frac(n, d) ==
    LET g == Gcd(Abs(n), Abs(d))
        s == IF d < 0 THEN -1 ELSE 1
    IN  <<(s * n) \div g, (s * d) \div g>>

TFromInt(v) == <<v, 1>>
TZero == TFromInt(0)
TOne == TFromInt(1)
TAdd(x, y) == Frac(x[1] * y[2] + y[1] * x[2], x[2] * y[2])
TMul(x, y) == Frac(x[1] * y[1], x[2] * y[2])
TDiv(x, y) == Frac(x[1] * y[2], x[2] * y[1])
\* a unary minus that returns its operand
TNeg_same(x) == x
TNeg(x) == <<-x[1], x[2]>>

(***************************************************************************)
(* Construction and element access.                                        *)
(***************************************************************************)
RECURSIVE Flatten(_)
Flatten(rowsSeq) ==
    IF rowsSeq = <<>> THEN <<>> ELSE Head(rowsSeq) \o Flatten(Tail(rowsSeq))

\* Matrix(std::initializer_list<std::initializer_list<T>>), valid input
FromRows(rowsSeq) ==
    [rows |-> Len(rowsSeq),
     cols |-> Len(rowsSeq[1]),
     data |-> Flatten([i \in 1..Len(rowsSeq) |->
                         [j \in 1..Len(rowsSeq[i]) |-> TFromInt(rowsSeq[i][j])]])]

\* the column-major reading: element (r, c) taken from index c * rows + r
at_column_major(m, r, c) == m.data[c * m.rows + r + 1]

\* at(r, c) for r < rows, c < cols
at(m, r, c) == m.data[r * m.cols + c + 1]

(***************************************************************************)
(* Constructors and the from_columns factory.  Each returns [err, m]: the  *)
(* exception thrown ("none" when the object is constructed) and the        *)
(* matrix; when the constructor throws there is no object and m is the    *)
(* members as they stood at the throw.                                     *)
(***************************************************************************)
\* Matrix(rows, cols): rows * cols default-initialized elements
Matrix_rows_cols(rows, cols) ==
    [err |-> IF rows = 0 \/ cols = 0 THEN "invalid_argument" ELSE "none",
     m |-> [rows |-> rows, cols |-> cols, data |-> [k \in 1..(rows * cols) |-> TZero]]]

\* the list is taken column by column: element (r, c) from index c * rows + r
Matrix_rows_cols_list_by_columns(rows, cols, initializer) ==
    [err |-> IF rows = 0 \/ cols = 0 \/ Len(initializer) # rows * cols
             THEN "invalid_argument" ELSE "none",
     m |-> [rows |-> rows, cols |-> cols,
            data |-> IF Len(initializer) # rows * cols THEN initializer
                     ELSE [k \in 1..(rows * cols) |->
                             initializer[((k - 1) % cols) * rows + ((k - 1) \div cols) + 1]]]]

\* Matrix(rows, cols, initializer): _data is the list as given
Matrix_rows_cols_list(rows, cols, initializer) ==
    [err |-> IF rows = 0 \/ cols = 0 \/ Len(initializer) # rows * cols
             THEN "invalid_argument" ELSE "none",
     m |-> [rows |-> rows, cols |-> cols, data |-> initializer]]

\* the rows after the first are not compared with the first
Matrix_rows_list_first_row_only(initializer) ==
    IF Len(initializer) = 0 \/ Len(initializer[1]) = 0
    THEN [err |-> "invalid_argument",
          m |-> [rows |-> Len(initializer), cols |-> 0, data |-> <<>>]]
    ELSE [err |-> "none",
          m |-> [rows |-> Len(initializer), cols |-> Len(initializer[1]),
                 data |-> Flatten(initializer)]]

\* Matrix(initializer): a list of rows
Matrix_rows_list(initializer) ==
    IF Len(initializer) = 0
    THEN [err |-> "invalid_argument", m |-> [rows |-> 0, cols |-> 0, data |-> <<>>]]
    ELSE IF Len(initializer[1]) = 0
    THEN [err |-> "invalid_argument",
          m |-> [rows |-> Len(initializer), cols |-> 0, data |-> <<>>]]
    ELSE IF \E i \in 1..Len(initializer) : Len(initializer[i]) # Len(initializer[1])
    THEN [err |-> "invalid_argument",
          m |-> [rows |-> Len(initializer), cols |-> Len(initializer[1]), data |-> <<>>]]
    ELSE [err |-> "none",
          m |-> [rows |-> Len(initializer), cols |-> Len(initializer[1]),
                 data |-> Flatten(initializer)]]

\* the elements are written in the order of the input: column after column
from_columns_untransposed(columns) ==
    IF Len(columns) = 0 \/ Len(columns[1]) = 0
       \/ \E c \in 1..Len(columns) : Len(columns[c]) # Len(columns[1])
    THEN [err |-> "invalid_argument", m |-> [rows |-> 0, cols |-> 0, data |-> <<>>]]
    ELSE [err |-> "none",
          m |-> [rows |-> Len(columns[1]), cols |-> Len(columns),
                 data |-> Flatten(columns)]]

\* from_columns(columns): Matrix m(rows, cols), then m.at(r, c) = element r of
\* column c
from_columns(columns) ==
    IF Len(columns) = 0
    THEN [err |-> "invalid_argument", m |-> [rows |-> 0, cols |-> 0, data |-> <<>>]]
    ELSE IF Len(columns[1]) = 0
    THEN [err |-> "invalid_argument", m |-> [rows |-> 0, cols |-> 0, data |-> <<>>]]
    ELSE IF \E c \in 1..Len(columns) : Len(columns[c]) # Len(columns[1])
    THEN [err |-> "invalid_argument", m |-> [rows |-> 0, cols |-> 0, data |-> <<>>]]
    ELSE LET rows == Len(columns[1])
             cols == Len(columns)
         IN  [err |-> "none",
              m |-> [rows |-> rows, cols |-> cols,
                     data |-> [k \in 1..(rows * cols) |->
                                 columns[((k - 1) % cols) + 1][((k - 1) \div cols) + 1]]]]

(***************************************************************************)
(* Rational (Rational.hpp): a numerator and a denominator of type int,     *)
(* <<n, d>>.  The values stay far from the limits of int, so the int       *)
(* operations are the mathematical ones; / and % of int truncate towards   *)
(* zero.                                                                   *)
(***************************************************************************)
int_div(a, b) ==
    IF (a >= 0) = (b >= 0) THEN Abs(a) \div Abs(b) ELSE 0 - (Abs(a) \div Abs(b))
int_rem(a, b) == a - b * int_div(a, b)

\* the loop of reduce(): the value of a when b has become 0
RECURSIVE reduce_loop(_, _)
reduce_loop(a, b) == IF b = 0 THEN a ELSE reduce_loop(b, int_rem(a, b))

\* reduce(): both members divided by the result of the loop
reduce(n, d) ==
    LET a == reduce_loop(IF n > d THEN n ELSE d, IF n > d THEN d ELSE n)
    IN  <<int_div(n, a), int_div(d, a)>>

\* Rational(numerator, denominator), for denominator # 0
Rational(n, d) == reduce(n, d)

\* Rational(value)
Rational_of_int(v) == reduce(v, 1)

\* the additive inverse: the numerator negated
Rational_neg_negating(x) == Rational(0 - x[1], x[2])

\* Rational::operator-()
Rational_neg(x) == Rational(x[1], x[2])

\* Rational::operator*(const Rational&)
Rational_mul(x, y) == Rational(x[1] * y[1], x[2] * y[2])

\* Rational::operator*=(const Rational&)
Rational_mul_assign(x, y) == reduce(x[1] * y[1], x[2] * y[2])

\* Rational::operator/(const Rational&), for a divisor with numerator # 0
Rational_div(x, y) == Rational(x[1] * y[2], x[2] * y[1])

\* Rational::operator+(const Rational&)
Rational_add(x, y) == Rational(x[1] * y[2] + y[1] * x[2], x[2] * y[2])

\* Rational::operator+=(const Rational&)
Rational_add_assign(x, y) == reduce(x[1] * y[2] + y[1] * x[2], x[2] * y[2])

\* Rational::operator==
Rational_eq(x, y) == x[1] = y[1] /\ x[2] = y[2]

(***************************************************************************)
(* Copy and move.  The four special members are defaulted: each copies or  *)
(* moves _rows, _cols and _data member by member.  Moving a size_t copies  *)
(* it; moving the std::vector hands its buffer over and leaves the source  *)
(* vector empty.                                                           *)
(***************************************************************************)
\* Matrix(const Matrix&) and operator=(const Matrix&): the new value
copy_of(x) == [rows |-> x.rows, cols |-> x.cols, data |-> x.data]

\* Matrix(Matrix&&) and operator=(Matrix&&): the object moved from, afterwards
moved_from(x) == [rows |-> x.rows, cols |-> x.cols, data |-> <<>>]

(***************************************************************************)
(* Arithmetic operators.  Each returns [err, m]: the exception thrown and  *)
(* the matrix returned by the sum or the product, or the receiver after    *)
(* the compound addition.  When the sum or the product throws, nothing is  *)
(* returned, and m is the receiver.                                        *)
(***************************************************************************)
\* T sum{}; for (k = from; k < cols(); ++k) sum += a(i, k) * b(k, j);
RECURSIVE mul_sum(_, _, _, _, _, _)
mul_sum(a, b, i, j, k, sum) ==
    IF k >= a.cols THEN sum
    ELSE mul_sum(a, b, i, j, k + 1,
                 TAdd(sum, TMul(a.data[i * a.cols + k + 1], b.data[k * b.cols + j + 1])))

\* the sum starts at k = 1 and leaves the first term out
operator_mul_skips_first(a, b) ==
    IF a.cols # b.rows
    THEN [err |-> "invalid_argument", m |-> a]
    ELSE [err |-> "none",
          m |-> [rows |-> a.rows, cols |-> b.cols,
                 data |-> [x \in 1..(a.rows * b.cols) |->
                             mul_sum(a, b, (x - 1) \div b.cols, (x - 1) % b.cols, 1, TZero)]]]

\* Matrix<T>::operator*(const Matrix<T>& other) const
operator_mul(a, b) ==
    IF a.cols # b.rows
    THEN [err |-> "invalid_argument", m |-> a]
    ELSE [err |-> "none",
          m |-> [rows |-> a.rows, cols |-> b.cols,
                 data |-> [x \in 1..(a.rows * b.cols) |->
                             mul_sum(a, b, (x - 1) \div b.cols, (x - 1) % b.cols, 0, TZero)]]]

\* Matrix<T>::operator+(const Matrix<T>& other) const
operator_add(a, b) ==
    IF a.rows # b.rows \/ a.cols # b.cols
    THEN [err |-> "invalid_argument", m |-> a]
    ELSE [err |-> "none",
          m |-> [rows |-> a.rows, cols |-> a.cols,
                 data |-> [x \in 1..Len(a.data) |-> TAdd(a.data[x], b.data[x])]]]

\* the elements both buffers have are added before the dimensions are compared
operator_add_assign_checks_late(a, b) ==
    [err |-> IF a.rows # b.rows \/ a.cols # b.cols THEN "invalid_argument" ELSE "none",
     m |-> [a EXCEPT !.data = [x \in 1..Len(a.data) |->
                                 IF x <= Len(b.data) THEN TAdd(a.data[x], b.data[x])
                                 ELSE a.data[x]]]]

\* Matrix<T>::operator+=(const Matrix<T>& other)
operator_add_assign(a, b) ==
    IF a.rows # b.rows \/ a.cols # b.cols
    THEN [err |-> "invalid_argument", m |-> a]
    ELSE [err |-> "none",
          m |-> [a EXCEPT !.data = [x \in 1..Len(a.data) |-> TAdd(a.data[x], b.data[x])]]]

(***************************************************************************)
(* row_at.  The span it returns is a pointer to the first element of the   *)
(* row and a length: [err, offset, size], offset counted in elements from  *)
(* the start of _data.  Writing through the span writes _data itself.      *)
(***************************************************************************)
\* the span is as long as the matrix has rows
row_at_rows_long(m, r) ==
    IF r >= m.rows
    THEN [err |-> "out_of_range", offset |-> 0, size |-> 0]
    ELSE [err |-> "none", offset |-> r * m.cols, size |-> m.rows]

\* std::span(&_data[r * _cols], _cols)
row_at(m, r) ==
    IF r >= m.rows
    THEN [err |-> "out_of_range", offset |-> 0, size |-> 0]
    ELSE [err |-> "none", offset |-> r * m.cols, size |-> m.cols]

\* view[j] = v; for j < view.size
span_write(m, view, j, v) == [m EXCEPT !.data[view.offset + j + 1] = v]

(***************************************************************************)
(* Row operations.  Each returns [err, m]: the exception thrown ("none"    *)
(* when the call returns normally) and the matrix after the call.          *)
(***************************************************************************)
\* the elements of row r, in order
row_of(m, r) == SubSeq(m.data, r * m.cols + 1, r * m.cols + m.cols)

\* the buffer with the cols elements that start at offset r * cols replaced by row
with_row(m, r, row) ==
    [m EXCEPT !.data = SubSeq(m.data, 1, r * m.cols) \o row
                           \o SubSeq(m.data, r * m.cols + m.cols + 1, Len(m.data))]

\* row r1 is copied over row r2 and row r1 is left as it was
swap_rows_copies(m, r1, r2) ==
    IF r1 >= m.rows \/ r2 >= m.rows
    THEN [err |-> "out_of_range", m |-> m]
    ELSE [err |-> "none", m |-> with_row(m, r2, row_of(m, r1))]

\* the index check fails only when both indices are past the last row; with
\* one valid index the call returns normally
swap_rows_checks_both(m, r1, r2) ==
    IF r1 >= m.rows /\ r2 >= m.rows
    THEN [err |-> "out_of_range", m |-> m]
    ELSE IF r1 >= m.rows \/ r2 >= m.rows
    THEN [err |-> "none", m |-> m]
    ELSE [err |-> "none",
          m |-> with_row(with_row(m, r1, row_of(m, r2)), r2, row_of(m, r1))]

\* std::swap_ranges(row r1, row r2)
swap_rows(m, r1, r2) ==
    IF r1 >= m.rows \/ r2 >= m.rows
    THEN [err |-> "out_of_range", m |-> m]
    ELSE [err |-> "none",
          m |-> with_row(with_row(m, r1, row_of(m, r2)), r2, row_of(m, r1))]

\* std::for_each over row r: x *= scalar
scale_row(m, r, scalar) ==
    IF r >= m.rows
    THEN [err |-> "out_of_range", m |-> m]
    ELSE [err |-> "none",
          m |-> with_row(m, r, [j \in 1..m.cols |-> TMul(row_of(m, r)[j], scalar)])]

\* the scalar is left out: row r2 becomes row r2 + row r1
add_row_unscaled(m, r1, r2, scalar) ==
    IF r1 >= m.rows \/ r2 >= m.rows
    THEN [err |-> "out_of_range", m |-> m]
    ELSE [err |-> "none",
          m |-> with_row(m, r2, [j \in 1..m.cols |->
                                   TAdd(row_of(m, r2)[j], row_of(m, r1)[j])])]

\* std::transform over row r1 in order: element j of row r2 becomes
\* b + scalar * a, where a is the current element j of row r1; for r1 = r2 the
\* two are the same object, read before it is written
add_row(m, r1, r2, scalar) ==
    IF r1 >= m.rows \/ r2 >= m.rows
    THEN [err |-> "out_of_range", m |-> m]
    ELSE [err |-> "none",
          m |-> with_row(m, r2, [j \in 1..m.cols |->
                                   TAdd(row_of(m, r2)[j],
                                        TMul(scalar, row_of(m, r1)[j]))])]

(***************************************************************************)
(* size_t arithmetic of the row cursor of rref_stats.  The cursor is       *)
(* unsigned: decrementing 0 wraps to the largest size_t value, and         *)
(* incrementing that value wraps back to 0.  SIZE_MAX stands for that      *)
(* value (2^64 - 1 on the 64-bit targets), written as its representative   *)
(* -1 modulo 2^64.                                                         *)
(***************************************************************************)
SIZE_MAX == -1
\* the row cursor is not moved back
SizeDec_missing(r) == r
SizeDec(r) == IF r = 0 THEN SIZE_MAX ELSE r - 1
SizeInc(r) == IF r = SIZE_MAX THEN 0 ELSE r + 1

(***************************************************************************)
(* rref_stats: the loop state is [m, swaps, scale_prod, r, c].             *)
(***************************************************************************)
\* while (i < m.rows() && m.at(i, c) == T{}) ++i;
RECURSIVE find_pivot(_, _, _)
find_pivot(m, i, c) ==
    IF i < m.rows /\ at(m, i, c) = TZero THEN find_pivot(m, i + 1, c) ELSE i

\* only the rows below the pivot row are cleared
RECURSIVE eliminate_below(_, _, _, _)
eliminate_below(m, r, c, row_idx) ==
    IF row_idx >= m.rows THEN m
    ELSE IF row_idx <= r THEN eliminate_below(m, r, c, row_idx + 1)
    ELSE LET f == at(m, row_idx, c)
         IN  IF f # TZero
             THEN eliminate_below(add_row(m, r, row_idx, TNeg(f)).m, r, c, row_idx + 1)
             ELSE eliminate_below(m, r, c, row_idx + 1)

\* for (row_idx = 0; row_idx < m.rows(); ++row_idx) { ... add_row(r, row_idx, -f) }
RECURSIVE eliminate(_, _, _, _)
eliminate(m, r, c, row_idx) ==
    IF row_idx >= m.rows THEN m
    ELSE IF row_idx = r THEN eliminate(m, r, c, row_idx + 1)
    ELSE LET f == at(m, row_idx, c)
         IN  IF f # TZero
             THEN eliminate(add_row(m, r, row_idx, TNeg(f)).m, r, c, row_idx + 1)
             ELSE eliminate(m, r, c, row_idx + 1)

\* if (i != r) { m.swap_rows(i, r); ++swaps; }: the swap counter
count_swap_always(swaps, i, r) == swaps + 1
count_swap(swaps, i, r) == IF i # r THEN swaps + 1 ELSE swaps

\* if (pivot_val != T{1}) { ...; scale_prod *= pivot_val; }: the accumulator
accumulate_inverse(scale_prod, pivot_val) ==
    IF pivot_val # TOne THEN TMul(scale_prod, TDiv(TOne, pivot_val)) ELSE scale_prod
accumulate(scale_prod, pivot_val) ==
    IF pivot_val # TOne THEN TMul(scale_prod, pivot_val) ELSE scale_prod

\* the body of one iteration of the for loop, entered with r < rows and c < cols
rref_body(s) ==
    LET i == find_pivot(s.m, s.r, s.c)
    IN  IF i = s.m.rows
        THEN [s EXCEPT !.c = s.c + 1, !.r = SizeDec(s.r)]
        ELSE LET swapped == IF i # s.r THEN swap_rows(s.m, i, s.r).m ELSE s.m
                 pivot_val == at(swapped, s.r, s.c)
                 scaled == IF pivot_val # TOne
                           THEN scale_row(swapped, s.r, TDiv(TOne, pivot_val)).m
                           ELSE swapped
             IN  [m |-> eliminate(scaled, s.r, s.c, 0),
                  swaps |-> count_swap(s.swaps, i, s.r),
                  scale_prod |-> accumulate(s.scale_prod, pivot_val),
                  r |-> s.r,
                  c |-> s.c + 1]

\* one iteration followed by the ++r of the for statement
rref_iter(s) == [rref_body(s) EXCEPT !.r = SizeInc(@)]

\* for (r = 0; r < m.rows(); ++r) { if (c >= m.cols()) break; ... }
RECURSIVE rref_loop(_)
rref_loop(s) ==
    IF s.r < s.m.rows /\ s.c < s.m.cols THEN rref_loop(rref_iter(s)) ELSE s

rref_stats(m) ==
    LET s == rref_loop([m |-> m, swaps |-> 0, scale_prod |-> TOne, r |-> 0, c |-> 0])
    IN  [m |-> s.m, swaps |-> s.swaps, scale_prod |-> s.scale_prod]

rref(m) == rref_stats(m).m

(***************************************************************************)
(* det: [err, val, ran]; ran tells whether the elimination was run.        *)
(***************************************************************************)
RECURSIVE diag_prod(_, _, _)
diag_prod(m, idx, acc) ==
    IF idx >= m.rows THEN acc ELSE diag_prod(m, idx + 1, TMul(acc, at(m, idx, idx)))

\* det = res.swaps % 2 ? -det : det;
apply_sign_never(d, swaps) == d
apply_sign(d, swaps) == IF swaps % 2 = 1 THEN TNeg(d) ELSE d

\* the single-row shortcut is taken before the matrix is known to be square
det_single_row_first(m) ==
    IF m.rows = 1
    THEN [err |-> "none", val |-> m.data[1], ran |-> FALSE]
    ELSE IF m.rows # m.cols
    THEN [err |-> "invalid_argument", val |-> TZero, ran |-> FALSE]
    ELSE LET res == rref_stats(m)
         IN  [err |-> "none",
              val |-> TMul(apply_sign(diag_prod(res.m, 0, TOne), res.swaps),
                           res.scale_prod),
              ran |-> TRUE]

det(m) ==
    IF m.rows # m.cols
    THEN [err |-> "invalid_argument", val |-> TZero, ran |-> FALSE]
    ELSE IF m.rows = 1
    THEN [err |-> "none", val |-> m.data[1], ran |-> FALSE]
    ELSE LET res == rref_stats(m)
         IN  [err |-> "none",
              val |-> TMul(apply_sign(diag_prod(res.m, 0, TOne), res.swaps),
                           res.scale_prod),
              ran |-> TRUE]

(***************************************************************************)
(* linearly_independent and solution.  Matrix.hpp declares neither; the    *)
(* tests and the example call them.  They are modelled from sections 4.4   *)
(* of the specification on top of rref.                                    *)
(***************************************************************************)
row_is_zero(m, r, ncols) == \A c \in 0..(ncols - 1) : at(m, r, c) = TZero

\* rank: the number of non-zero rows of the RREF
rank(m) ==
    LET red == rref(m)
    IN  Cardinality({r \in 0..(m.rows - 1) : ~row_is_zero(red, r, m.cols)})

linearly_independent(m) == rank(m) = m.cols

\* [A | b] for Len(b) = rows: each row of A followed by its entry of b
augment(m, b) ==
    [rows |-> m.rows,
     cols |-> m.cols + 1,
     data |-> Flatten([i \in 1..m.rows |-> Append(row_of(m, i - 1), b[i])])]

\* a row of the reduced [A | b] whose left block is zero and whose last entry is not
inconsistent(red) ==
    \E r \in 0..(red.rows - 1) :
        row_is_zero(red, r, red.cols - 1) /\ at(red, r, red.cols - 1) # TZero

\* [err, has, x]: has = FALSE is the empty optional
solution(m, b) ==
    IF Len(b) # m.rows
    THEN [err |-> "invalid_argument", has |-> FALSE, x |-> <<>>]
    ELSE LET red == rref(augment(m, b))
         IN  IF inconsistent(red)
             THEN [err |-> "none", has |-> FALSE, x |-> <<>>]
             ELSE [err |-> "none", has |-> TRUE,
                   x |-> [i \in 1..m.rows |-> at(red, i - 1, m.cols)]]

(***************************************************************************)
(* Inputs.                                                                 *)
(***************************************************************************)
Dims == 1..MaxDim

\* the matrices of tests/test_matrix.cpp and of the scenarios of the specification
RrefExample == FromRows(<<<<1, -2, 1, 0>>, <<0, 2, -8, 8>>, <<5, 0, -5, 10>>>>)
RrefExampleExpected == FromRows(<<<<1, 0, 0, 1>>, <<0, 1, 0, 0>>, <<0, 0, 1, -1>>>>)
Identity3 == FromRows(<<<<1, 0, 0>>, <<0, 1, 0>>, <<0, 0, 1>>>>)
UpperTriangle == FromRows(<<<<2, 1>>, <<0, 3>>>>)
TwoByTwo == FromRows(<<<<1, 2>>, <<3, 4>>>>)
Singular == FromRows(<<<<1, 2>>, <<2, 4>>>>)
FourByFour ==
    FromRows(<<<<1, -2, 1, 0>>, <<0, 2, -8, 8>>, <<5, 0, -5, 10>>, <<9, -5, -5, 6>>>>)
SolveExample == FromRows(<<<<1, -2, 1>>, <<0, 2, -8>>, <<5, 0, -5>>>>)
SolveExampleB == <<TFromInt(0), TFromInt(8), TFromInt(10)>>
SolveExampleX == <<TFromInt(1), TFromInt(0), TFromInt(-1)>>
OneByOne == FromRows(<<<<7>>>>)

TestMatrices ==
    {RrefExample, Identity3, UpperTriangle, TwoByTwo, Singular, FourByFour,
     SolveExample, OneByOne}

\* right-hand sides offered to solution: the vectors over RhsEntries of the
\* right length with no, one or only non-zero entries, one vector shorter and
\* one longer, and the vector of the test
RightHandSides(x) ==
    {b \in [1..x.rows -> {TFromInt(v) : v \in RhsEntries}] :
        Cardinality({i \in 1..x.rows : b[i] # TZero}) \in {0, 1, x.rows}}
        \cup {[i \in 1..(x.rows - 1) |-> TZero], [i \in 1..(x.rows + 1) |-> TZero]}
        \cup (IF x = SolveExample THEN {SolveExampleB} ELSE {})

(***************************************************************************)
(* State.                                                                  *)
(*   m       the matrix object the calls are made on                       *)
(*   m0      the value m was given by its construction or last assignment  *)
(*   origin  "input", or "rref" once m has been assigned an rref() result  *)
(*   log     the row operations called on m since then, in order           *)
(*   last    the last call: its name, arguments, exception and results     *)
(*   other   a second matrix object: the right operand of the arithmetic   *)
(*           operators and the target of copies and moves                  *)
(***************************************************************************)
VARIABLES m, m0, origin, log, last, other

vars == <<m, m0, origin, log, last, other>>

\* no call result is held: nothing was called yet, or the result was consumed
NoCall(x) ==
    [op |-> "none", err |-> "none", pre |-> x, mat |-> x, swaps |-> 0,
     val |-> TZero, flag |-> FALSE, vec |-> <<>>, arg |-> <<>>]

Init ==
    /\ \/ \E R \in Dims, C \in Dims :
            \E d \in [1..(R * C) -> {TFromInt(v) : v \in Entries}] :
                m = [rows |-> R, cols |-> C, data |-> d]
       \/ m \in TestMatrices
    /\ m0 = m
    /\ origin = "input"
    /\ log = <<>>
    /\ last = NoCall(m)
    /\ other = Matrix_rows_cols(1, 1).m

\* auto res = m.rref_stats();
CallRrefStats ==
    /\ last.op = "none"
    /\ last' = LET res == rref_stats(m)
                IN  [op |-> "rref_stats", err |-> "none", pre |-> m, mat |-> res.m,
                     swaps |-> res.swaps, val |-> res.scale_prod, flag |-> FALSE,
                     vec |-> <<>>, arg |-> <<>>]
    /\ UNCHANGED <<m, m0, origin, log, other>>

\* auto res = m.rref();
CallRref ==
    /\ last.op = "none"
    /\ last' = [op |-> "rref", err |-> "none", pre |-> m, mat |-> rref(m),
                swaps |-> 0, val |-> TZero, flag |-> FALSE, vec |-> <<>>, arg |-> <<>>]
    /\ UNCHANGED <<m, m0, origin, log, other>>

\* m = m.rref();  (the result of the last rref() call is assigned to m)
AssignRref ==
    /\ last.op = "rref"
    /\ origin = "input"
    /\ m' = last.mat
    /\ m0' = last.mat
    /\ origin' = "rref"
    /\ last' = NoCall(last.mat)
    /\ UNCHANGED <<log, other>>

\* the result of the last call goes out of scope
Discard ==
    /\ last.op # "none"
    /\ last' = NoCall(m)
    /\ UNCHANGED <<m, m0, origin, log, other>>

\* auto d = m.det();
CallDet ==
    /\ last.op = "none"
    /\ last' = LET res == det(m)
                IN  [op |-> "det", err |-> res.err, pre |-> m, mat |-> m, swaps |-> 0,
                     val |-> res.val, flag |-> res.ran, vec |-> <<>>, arg |-> <<>>]
    /\ UNCHANGED <<m, m0, origin, log, other>>

\* auto d0 = m.det(); Matrix<T> c(m); c.swap_rows(r1, r2); auto d1 = c.det();
\* on a square matrix with valid row indices
CallDetOfSwapped ==
    /\ last.op = "none"
    /\ m.rows = m.cols
    /\ \E r1, r2 \in 0..(m.rows - 1) :
         last' = LET c == swap_rows(m, r1, r2).m
                     res == det(c)
                 IN  [op |-> "swap_rows;det", err |-> res.err, pre |-> m, mat |-> c,
                      swaps |-> 0, val |-> res.val, flag |-> res.ran,
                      vec |-> <<det(m).val>>, arg |-> <<r1, r2>>]
    /\ UNCHANGED <<m, m0, origin, log, other>>

\* bool b = m.linearly_independent();
CallLinearlyIndependent ==
    /\ last.op = "none"
    /\ last' = [op |-> "linearly_independent", err |-> "none", pre |-> m, mat |-> m,
                swaps |-> 0, val |-> TZero, flag |-> linearly_independent(m),
                vec |-> <<>>, arg |-> <<>>]
    /\ UNCHANGED <<m, m0, origin, log, other>>

\* auto x = m.solution(b);
CallSolution ==
    /\ last.op = "none"
    /\ \E b \in RightHandSides(m) :
         last' = LET res == solution(m, b)
                 IN  [op |-> "solution", err |-> res.err, pre |-> m, mat |-> m,
                      swaps |-> 0, val |-> TZero, flag |-> res.has, vec |-> res.x,
                      arg |-> b]
    /\ UNCHANGED <<m, m0, origin, log, other>>

\* the elimination and the operations derived from it, called on m
Next ==
    \/ CallRrefStats
    \/ CallRref
    \/ AssignRref
    \/ Discard
    \/ CallDet
    \/ CallLinearlyIndependent

Spec == Init /\ [][Next]_vars

\* determinants of a matrix and of its copies with two rows exchanged
NextSwap == CallDetOfSwapped \/ Discard

SpecSwap == Init /\ [][NextSwap]_vars

\* linear systems A x = b solved on m
NextSolve == CallSolution \/ Discard

SpecSolve == Init /\ [][NextSolve]_vars

(***************************************************************************)
(* Row operations called on a matrix, one after the other.  The matrices   *)
(* are those of the row operation tests: their entries tell the positions  *)
(* apart.                                                                  *)
(***************************************************************************)
ThreeByTwo == FromRows(<<<<0, 1>>, <<2, 3>>, <<4, 5>>>>)
TwoByTwoRowOps == FromRows(<<<<1, 2>>, <<3, 4>>>>)
RowOpMatrices == {ThreeByTwo, TwoByTwoRowOps}

\* row indices offered to the row operations: the rows and one index past them
RowArgs(x) == 0..x.rows
ScalarArgs == {TFromInt(k) : k \in Scalars}

InitRowOps ==
    /\ m \in RowOpMatrices
    /\ m0 = m
    /\ origin = "input"
    /\ log = <<>>
    /\ last = NoCall(m)
    /\ other = Matrix_rows_cols(1, 1).m

RowOpCall(name, res, rs, k) ==
    /\ Len(log) < MaxOps
    /\ m' = res.m
    /\ log' = Append(log, [op |-> name, rs |-> rs, k |-> k, err |-> res.err])
    /\ last' = [op |-> name, err |-> res.err, pre |-> m, mat |-> res.m, swaps |-> 0,
                val |-> k, flag |-> FALSE, vec |-> <<>>, arg |-> rs]
    /\ UNCHANGED <<m0, origin, other>>

\* m.swap_rows(r1, r2);
DoSwapRows ==
    \E r1, r2 \in RowArgs(m) :
        RowOpCall("swap_rows", swap_rows(m, r1, r2), <<r1, r2>>, TZero)

\* m.scale_row(r, k);
DoScaleRow ==
    \E r \in RowArgs(m), k \in ScalarArgs :
        RowOpCall("scale_row", scale_row(m, r, k), <<r>>, k)

\* m.add_row(r1, r2, k);
DoAddRow ==
    \E r1, r2 \in RowArgs(m), k \in ScalarArgs :
        RowOpCall("add_row", add_row(m, r1, r2, k), <<r1, r2>>, k)

NextRowOps == DoSwapRows \/ DoScaleRow \/ DoAddRow

SpecRowOps == InitRowOps /\ [][NextRowOps]_vars

(***************************************************************************)
(* Construction.  One object is constructed from the arguments of a        *)
(* constructor call or of from_columns; when the call throws, no object    *)
(* exists and m keeps the 1x1 matrix it started with.                      *)
(***************************************************************************)
ListEntries == {0, 1}
ListT == {TFromInt(v) : v \in ListEntries}

\* the list 0, 1, ..., n - 1: its elements tell the positions apart
Iota(n) == [k \in 1..n |-> TFromInt(k - 1)]

\* element lists for Matrix(rows, cols, list): up to one element more than the
\* largest matrix holds
FlatLists ==
    UNION {[1..n -> ListT] : n \in 0..(MaxDim * MaxDim + 1)}
        \cup {Iota(n) : n \in 1..(MaxDim * (MaxDim + 1))}

\* lists of lists for Matrix(list of rows) and from_columns(list of columns):
\* empty, with empty members, aligned and misaligned
InnerLists == UNION {[1..n -> ListT] : n \in 0..MaxDim}
NestedLists ==
    UNION {[1..n -> InnerLists] : n \in 0..MaxDim}
        \cup {<<<<TFromInt(0), TFromInt(1), TFromInt(2)>>,
                <<TFromInt(3), TFromInt(4), TFromInt(5)>>>>,
              <<<<TFromInt(0), TFromInt(1)>>, <<TFromInt(2), TFromInt(3)>>,
                <<TFromInt(4), TFromInt(5)>>>>,
              <<<<TFromInt(0), TFromInt(1)>>, <<TFromInt(2)>>>>}

\* src/Matrix.hpp, the column-major class that include/lin_alg/Matrix.hpp
\* replaced: its constructor takes the list as it is, and row_at(row) collects
\* data[col * rows + row] for each column
Legacy_Matrix(rows, cols, initializer) ==
    [rows |-> rows, cols |-> cols, data |-> initializer]
Legacy_row_at_row_major(x, row) ==
    [col \in 1..x.cols |-> x.data[row * x.cols + (col - 1) + 1]]
Legacy_row_at(x, row) ==
    [col \in 1..x.cols |-> x.data[(col - 1) * x.rows + row + 1]]

InitConstruct ==
    /\ m = Matrix_rows_cols(1, 1).m
    /\ m0 = m
    /\ origin = "input"
    /\ log = <<>>
    /\ last = NoCall(m)
    /\ other = Matrix_rows_cols(1, 1).m

\* the object the call constructs becomes m
Constructed(name, res, dims, list) ==
    /\ m' = IF res.err = "none" THEN res.m ELSE m
    /\ last' = [op |-> name, err |-> res.err, pre |-> m, mat |-> res.m, swaps |-> 0,
                val |-> TZero, flag |-> FALSE, vec |-> list, arg |-> dims]
    /\ UNCHANGED <<m0, origin, log, other>>

\* Matrix<T> m(rows, cols);
ConstructDims ==
    /\ last.op = "none"
    /\ \E rows \in 0..MaxDim, cols \in 0..MaxDim :
            Constructed("Matrix(rows,cols)", Matrix_rows_cols(rows, cols), <<rows, cols>>, <<>>)

\* Matrix<T> m(rows, cols, {...});
ConstructFlat ==
    /\ last.op = "none"
    /\ \E rows \in 0..MaxDim, cols \in 0..(MaxDim + 1), list \in FlatLists :
         Constructed("Matrix(rows,cols,list)", Matrix_rows_cols_list(rows, cols, list),
                     <<rows, cols>>, list)

\* Matrix<T> m({{...}, ...});
ConstructNested ==
    /\ last.op = "none"
    /\ \E list \in NestedLists :
            Constructed("Matrix(rows)", Matrix_rows_list(list), <<>>, list)

\* auto m = Matrix<T>::from_columns({{...}, ...});
ConstructFromColumns ==
    /\ last.op = "none"
    /\ \E list \in NestedLists :
            Constructed("from_columns", from_columns(list), <<>>, list)

\* Matrix<int> matrix = Matrix<int>(rows, cols, {...}); of src/main.cpp, with a
\* list of rows * cols elements (the class checks nothing)
ConstructLegacy ==
    /\ last.op = "none"
    /\ \E rows \in 1..MaxDim, cols \in 1..(MaxDim + 1) :
         /\ Iota(rows * cols) \in FlatLists
         /\ last' = [op |-> "legacy Matrix(rows,cols,list)", err |-> "none", pre |-> m,
                     mat |-> Legacy_Matrix(rows, cols, Iota(rows * cols)), swaps |-> 0,
                     val |-> TZero, flag |-> FALSE, vec |-> Iota(rows * cols),
                     arg |-> <<rows, cols>>]
    /\ UNCHANGED <<m, m0, origin, log, other>>

NextConstruct ==
    \/ ConstructDims
    \/ ConstructFlat
    \/ ConstructNested
    \/ ConstructFromColumns
    \/ ConstructLegacy

SpecConstruct == InitConstruct /\ [][NextConstruct]_vars

(***************************************************************************)
(* Writes through row views.  A view is taken with row_at and one of its   *)
(* elements is assigned; the view is then dropped.                         *)
(***************************************************************************)
RowAtTest == FromRows(<<<<1, 2, 3>>, <<4, 5, 6>>>>)
WrittenValues == {TFromInt(1234)}

InitRowAt ==
    /\ m \in RowOpMatrices \cup {RowAtTest}
    /\ m0 = m
    /\ origin = "input"
    /\ log = <<>>
    /\ last = NoCall(m)
    /\ other = Matrix_rows_cols(1, 1).m

\* auto row = m.row_at(r); row[j] = v;
RowAtWrite ==
    /\ last.op = "none"
    /\ \E r \in RowArgs(m), j \in 0..(m.cols - 1), v \in WrittenValues :
         /\ row_at(m, r).err = "none" => j < row_at(m, r).size
         /\ m' = IF row_at(m, r).err = "none"
                 THEN span_write(m, row_at(m, r), j, v) ELSE m
         /\ last' = [op |-> "row_at", err |-> row_at(m, r).err, pre |-> m, mat |-> m',
                     swaps |-> 0, val |-> v, flag |-> FALSE,
                     vec |-> <<row_at(m, r).offset, row_at(m, r).size>>,
                     arg |-> <<r, j>>]
    /\ UNCHANGED <<m0, origin, log, other>>

NextRowAt == RowAtWrite \/ Discard

SpecRowAt == InitRowAt /\ [][NextRowAt]_vars

(***************************************************************************)
(* Arithmetic on two matrix objects: m is the receiver and other the       *)
(* right operand.  operator+= changes m, so the number of += calls is      *)
(* bounded; log records them.                                              *)
(***************************************************************************)
ArithEntries == {0, 1}

AddTestA == FromRows(<<<<0, 1>>, <<2, 3>>, <<4, 5>>>>)
AddTestB == FromRows(<<<<6, 7>>, <<8, 9>>, <<10, 11>>>>)
AddTestBShort == FromRows(<<<<6, 7>>, <<8, 9>>>>)
MulTestA == FromRows(<<<<0, 2, 4>>, <<1, 3, 5>>>>)
MulTestB == FromRows(<<<<6, 9>>, <<7, 10>>, <<8, 11>>>>)
MulTestExpected == FromRows(<<<<46, 64>>, <<67, 94>>>>)

\* the n x n identity matrix
IdentityOf(n) ==
    [rows |-> n, cols |-> n,
     data |-> [x \in 1..(n * n) |->
                 IF (x - 1) \div n = (x - 1) % n THEN TOne ELSE TZero]]

\* the R x C matrix with the entries 1, -2, 3, -4, ... in row-major order
SignedIota(R, C) ==
    [rows |-> R, cols |-> C,
     data |-> [x \in 1..(R * C) |-> TFromInt(IF x % 2 = 1 THEN x ELSE 0 - x)]]

LeftOperands ==
    UNION {{[rows |-> R, cols |-> C, data |-> d] :
              d \in [1..(R * C) -> {TFromInt(v) : v \in ArithEntries}]} :
           R \in Dims, C \in Dims}
        \cup {AddTestA, MulTestA, TwoByTwo}

RightOperands ==
    {SignedIota(R, C) : R \in Dims, C \in Dims}
        \cup {IdentityOf(n) : n \in Dims}
        \cup {AddTestB, AddTestBShort, MulTestB}

InitArith ==
    /\ m \in LeftOperands
    /\ other \in RightOperands
    /\ m0 = m
    /\ origin = "input"
    /\ log = <<>>
    /\ last = NoCall(m)

\* the call record of an operator applied to m and other; flag tells that the
\* operator returned
ArithCall(name, res) ==
    [op |-> name, err |-> res.err, pre |-> m, mat |-> res.m, swaps |-> 0,
     val |-> TZero, flag |-> res.err = "none", vec |-> <<>>, arg |-> other]

\* Matrix<T> actual = m + other;
CallAdd ==
    /\ last.op = "none"
    /\ last' = ArithCall("operator+", operator_add(m, other))
    /\ UNCHANGED <<m, m0, origin, log, other>>

\* m += other;
CallAddAssign ==
    /\ last.op = "none"
    /\ Len(log) < MaxOps
    /\ m' = operator_add_assign(m, other).m
    /\ last' = ArithCall("operator+=", operator_add_assign(m, other))
    /\ log' = Append(log, [op |-> "operator+=", rs |-> <<>>, k |-> TZero,
                           err |-> operator_add_assign(m, other).err])
    /\ UNCHANGED <<m0, origin, other>>

\* Matrix<T> actual = m * other;
CallMul ==
    /\ last.op = "none"
    /\ last' = ArithCall("operator*", operator_mul(m, other))
    /\ UNCHANGED <<m, m0, origin, log, other>>

NextArith == CallAdd \/ CallAddAssign \/ CallMul \/ Discard

SpecArith == InitArith /\ [][NextArith]_vars

(***************************************************************************)
(* Lifetimes of two matrix objects m and other: they are copied, moved,    *)
(* assigned, changed by row operations and compound addition, and passed   *)
(* to the operators and the elimination, whose results last holds.  The    *)
(* elements of an object that was moved from are not accessed until it is  *)
(* assigned again: origin is "moved_from" in between.  log bounds the      *)
(* number of calls that change an object.                                  *)
(***************************************************************************)
InitObjects ==
    /\ m \in {TwoByTwo, Singular, ThreeByTwo, MulTestA}
    /\ other \in {IdentityOf(n) : n \in Dims} \cup {AddTestB, MulTestB}
    /\ m0 = m
    /\ origin = "input"
    /\ log = <<>>
    /\ last = NoCall(m)

\* one more call that changes an object
Logged(name, err) ==
    /\ Len(log) < MaxOps
    /\ log' = Append(log, [op |-> name, rs |-> <<>>, k |-> TZero, err |-> err])

\* other = m;
ObjCopyAssign ==
    /\ last.op = "none" /\ origin = "input"
    /\ Logged("copy", "none")
    /\ other' = copy_of(m)
    /\ UNCHANGED <<m, m0, origin, last>>

\* other = std::move(m);  or  Matrix<T> other(std::move(m));
ObjMove ==
    /\ last.op = "none" /\ origin = "input"
    /\ Logged("move", "none")
    /\ other' = copy_of(m)
    /\ m' = moved_from(m)
    /\ origin' = "moved_from"
    /\ last' = NoCall(m')
    /\ UNCHANGED m0

\* m = other;
ObjAssign ==
    /\ last.op = "none"
    /\ Logged("assign", "none")
    /\ m' = copy_of(other)
    /\ origin' = "input"
    /\ last' = NoCall(m')
    /\ UNCHANGED <<m0, other>>

\* m.swap_rows / m.scale_row / m.add_row with valid and invalid rows
ObjRowOp ==
    /\ last.op = "none" /\ origin = "input"
    /\ \E r1, r2 \in RowArgs(m), k \in ScalarArgs :
         \E res \in {swap_rows(m, r1, r2), scale_row(m, r1, k), add_row(m, r1, r2, k)} :
            /\ Logged("row operation", res.err)
            /\ m' = res.m
            /\ last' = NoCall(m')
    /\ UNCHANGED <<m0, origin, other>>

\* m += other;
ObjAddAssign ==
    /\ last.op = "none" /\ origin = "input"
    /\ Logged("operator+=", operator_add_assign(m, other).err)
    /\ m' = operator_add_assign(m, other).m
    /\ last' = NoCall(m')
    /\ UNCHANGED <<m0, origin, other>>

\* m = m.rref();
ObjAssignRref ==
    /\ last.op = "none" /\ origin = "input"
    /\ Logged("rref", "none")
    /\ m' = rref(m)
    /\ last' = NoCall(m')
    /\ UNCHANGED <<m0, origin, other>>

\* auto res = m.rref_stats();  last.mat is the matrix inside the RrefResult
ObjRrefStats ==
    /\ origin = "input"
    /\ CallRrefStats

\* m + other and m * other: last.mat is the matrix returned, if any
ObjArith ==
    /\ last.op = "none" /\ origin = "input"
    /\ \E res \in {operator_add(m, other), operator_mul(m, other)} :
         last' = [ArithCall("operator", res) EXCEPT
                     !.mat = IF res.err = "none" THEN res.m ELSE m]
    /\ UNCHANGED <<m, m0, origin, log, other>>

NextObjects ==
    \/ ObjCopyAssign
    \/ ObjMove
    \/ ObjAssign
    \/ ObjRowOp
    \/ ObjAddAssign
    \/ ObjAssignRref
    \/ ObjRrefStats
    \/ ObjArith
    \/ Discard

SpecObjects == InitObjects /\ [][NextObjects]_vars

(***************************************************************************)
(* Rational values.  A Rational is constructed from a numerator and a      *)
(* denominator and negated, or two of them meet in the elimination step    *)
(* of rref_stats on a Matrix<Rational>: pivot is the entry at(r, c) before *)
(* the pivot row is scaled and f the entry at(row_idx, c) of another row.  *)
(***************************************************************************)
Numerators == (0 - MaxNum)..MaxNum
Denominators == Numerators \ {0}

InitRational ==
    /\ m = Matrix_rows_cols(1, 1).m
    /\ m0 = m
    /\ origin = "input"
    /\ log = <<>>
    /\ last = NoCall(m)
    /\ other = Matrix_rows_cols(1, 1).m

\* Rational x(n, d); Rational y = -x; Rational z = x + y;
\* arg is x, val is -x and vec holds x + (-x)
CallNegate ==
    /\ last.op = "none"
    /\ \E n \in Numerators, d \in Denominators :
         last' = [NoCall(m) EXCEPT
                     !.op = "Rational::operator-",
                     !.arg = Rational(n, d),
                     !.val = Rational_neg(Rational(n, d)),
                     !.vec = <<Rational_add(Rational(n, d), Rational_neg(Rational(n, d)))>>]
    /\ UNCHANGED <<m, m0, origin, log, other>>

\* the entry at(r, c) after m.scale_row(r, T{1} / pivot_val)
scaled_pivot(pivot_val) ==
    Rational_mul_assign(pivot_val, Rational_div(Rational_of_int(1), pivot_val))

\* the entry at(row_idx, c) after m.add_row(r, row_idx, -f): b += scalar * a
eliminated_entry(f, a) == Rational_add_assign(f, Rational_mul(Rational_neg(f), a))

\* one pass of the elimination loop of rref_stats over a column with the pivot
\* entry pivot and the entry f in another row; arg is <<pivot, f>> and val is
\* the entry at(row_idx, c) afterwards
CallEliminateStep ==
    /\ last.op = "none"
    /\ \E pn, fn \in Numerators \ {0}, pd, fd \in Denominators :
         last' = [NoCall(m) EXCEPT
                     !.op = "rref_stats elimination step",
                     !.arg = <<Rational(pn, pd), Rational(fn, fd)>>,
                     !.val = eliminated_entry(Rational(fn, fd),
                                              scaled_pivot(Rational(pn, pd)))]
    /\ UNCHANGED <<m, m0, origin, log, other>>

\* Rational a(n1, d1); Rational b(n2, d2); a == b;
\* arg holds the four integers, vec the two values and flag the result
CallEquals ==
    /\ last.op = "none"
    /\ \E n1, n2 \in Numerators, d1, d2 \in Denominators :
         last' = [NoCall(m) EXCEPT
                     !.op = "Rational::operator==",
                     !.arg = <<n1, d1, n2, d2>>,
                     !.vec = <<Rational(n1, d1), Rational(n2, d2)>>,
                     !.flag = Rational_eq(Rational(n1, d1), Rational(n2, d2))]
    /\ UNCHANGED <<m, m0, origin, log, other>>

NextRational == CallNegate \/ CallEliminateStep \/ CallEquals \/ Discard

SpecRational == InitRational /\ [][NextRational]_vars

(***************************************************************************)
(* The loop of rref_stats, one statement at a time.  While the call runs,  *)
(* last holds its variables: mat the working copy m, swaps, val the        *)
(* accumulator scale_prod, and arg the cursors r, c, i and row_idx with    *)
(* pc, the statement that runs next:                                       *)
(*   "for"        the loop condition r < m.rows() and the test c >= cols   *)
(*   "branch"     if (i == m.rows()), after the search of column c         *)
(*   "scale"      const T pivot_val = m.at(r, c); if (pivot_val != T{1})   *)
(*   "eliminate"  the loop over row_idx                                    *)
(* log holds one record per iteration whose branch has been taken: the     *)
(* branch, the working copy and the cursors r and c on entry, and redo,    *)
(* the value of r when the body is left, before the ++r of the for         *)
(* statement.                                                              *)
(***************************************************************************)
Cursor(r, c, pc, i, row_idx) == [r |-> r, c |-> c, pc |-> pc, i |-> i, row_idx |-> row_idx]

\* the call is inside rref_stats at statement pc
LoopAt(pc) == last.op = "rref_stats loop" /\ last.arg.pc = pc

\* r < m.rows() holds and the break on c >= m.cols() is not taken
LoopRuns(l) == l.arg.r < l.mat.rows /\ l.arg.c < l.mat.cols

\* the branch without a pivot leaves the column cursor where it is
redo_row_same_column(x) == [x EXCEPT !.r = SizeDec(x.r)]
\* ++c; --r; continue;
redo_row(x) == [x EXCEPT !.c = x.c + 1, !.r = SizeDec(x.r)]

\* the matrices rref_stats is called on: every pattern of zero and non-zero
\* entries up to MaxDim x MaxDim, the test matrices, and the 3 x 2 matrix of
\* the tests, whose first column offers two rows below a zero entry
LoopEntries == {-1, 0}

InitLoop ==
    /\ \/ \E R \in Dims, C \in Dims :
            \E d \in [1..(R * C) -> {TFromInt(v) : v \in LoopEntries}] :
                m = [rows |-> R, cols |-> C, data |-> d]
       \/ m \in TestMatrices \cup {ThreeByTwo}
    /\ m0 = m
    /\ origin = "input"
    /\ log = <<>>
    /\ last = NoCall(m)
    /\ other = Matrix_rows_cols(1, 1).m

\* Matrix<T> m(*this); size_t swaps = 0; T scale_prod = T{1}; size_t c = 0; r = 0
LoopBegin ==
    /\ last.op = "none"
    /\ last' = [NoCall(m) EXCEPT !.op = "rref_stats loop", !.mat = copy_of(m),
                                 !.swaps = 0, !.val = TOne,
                                 !.arg = Cursor(0, 0, "for", 0, 0)]
    /\ log' = <<>>
    /\ UNCHANGED <<m, m0, origin, other>>

\* size_t i = r; while (i < m.rows() && m.at(i, c) == T{}) ++i;
LoopSearch ==
    /\ LoopAt("for")
    /\ LoopRuns(last)
    /\ last' = [last EXCEPT !.arg.pc = "branch",
                            !.arg.i = find_pivot(last.mat, last.arg.r, last.arg.c)]
    /\ UNCHANGED <<m, m0, origin, log, other>>

\* if (i == m.rows()) { ++c; --r; continue; } and the ++r of the for statement
LoopSkip ==
    /\ LoopAt("branch")
    /\ last.arg.i = last.mat.rows
    /\ last' = [last EXCEPT !.arg = [redo_row(last.arg) EXCEPT !.r = SizeInc(@),
                                                                !.pc = "for"]]
    /\ log' = Append(log, [kind |-> "skip", before |-> last.mat, r |-> last.arg.r,
                            c |-> last.arg.c, redo |-> redo_row(last.arg).r])
    /\ UNCHANGED <<m, m0, origin, other>>

\* if (i != r) { m.swap_rows(i, r); ++swaps; }
LoopSwap ==
    /\ LoopAt("branch")
    /\ last.arg.i # last.mat.rows
    /\ last' = [last EXCEPT
                   !.mat = IF last.arg.i # last.arg.r
                           THEN swap_rows(last.mat, last.arg.i, last.arg.r).m
                           ELSE last.mat,
                   !.swaps = count_swap(last.swaps, last.arg.i, last.arg.r),
                   !.arg.pc = "scale"]
    /\ log' = Append(log, [kind |-> "pivot", before |-> last.mat, r |-> last.arg.r,
                            c |-> last.arg.c, redo |-> last.arg.r])
    /\ UNCHANGED <<m, m0, origin, other>>

\* const T pivot_val = m.at(r, c);
\* if (pivot_val != T{1}) { m.scale_row(r, T{1} / pivot_val); scale_prod *= pivot_val; }
LoopScale ==
    /\ LoopAt("scale")
    /\ last' = [last EXCEPT
                   !.mat = IF at(last.mat, last.arg.r, last.arg.c) # TOne
                           THEN scale_row(last.mat, last.arg.r,
                                          TDiv(TOne, at(last.mat, last.arg.r, last.arg.c))).m
                           ELSE last.mat,
                   !.val = accumulate(last.val, at(last.mat, last.arg.r, last.arg.c)),
                   !.arg.pc = "eliminate",
                   !.arg.row_idx = 0]
    /\ UNCHANGED <<m, m0, origin, log, other>>

\* one pass of for (row_idx = 0; row_idx < m.rows(); ++row_idx):
\* if (row_idx == r) continue; f = m.at(row_idx, c); if (f != T{}) m.add_row(r, row_idx, -f);
LoopEliminate ==
    /\ LoopAt("eliminate")
    /\ last.arg.row_idx < last.mat.rows
    /\ last' = [last EXCEPT
                   !.mat = IF /\ last.arg.row_idx # last.arg.r
                              /\ at(last.mat, last.arg.row_idx, last.arg.c) # TZero
                           THEN add_row(last.mat, last.arg.r, last.arg.row_idx,
                                        TNeg(at(last.mat, last.arg.row_idx, last.arg.c))).m
                           ELSE last.mat,
                   !.arg.row_idx = last.arg.row_idx + 1]
    /\ UNCHANGED <<m, m0, origin, log, other>>

\* the loop over row_idx is left: ++c; and the ++r of the for statement
LoopAdvance ==
    /\ LoopAt("eliminate")
    /\ last.arg.row_idx >= last.mat.rows
    /\ last' = [last EXCEPT !.arg.c = last.arg.c + 1,
                            !.arg.r = SizeInc(last.arg.r),
                            !.arg.pc = "for"]
    /\ UNCHANGED <<m, m0, origin, log, other>>

\* the loop is left: return RrefResult{std::move(m), swaps, scale_prod};
LoopReturn ==
    /\ LoopAt("for")
    /\ ~LoopRuns(last)
    /\ last' = [last EXCEPT !.op = "rref_stats returned"]
    /\ UNCHANGED <<m, m0, origin, log, other>>

\* the statements of a running call
LoopStep ==
    \/ LoopSearch
    \/ LoopSkip
    \/ LoopSwap
    \/ LoopScale
    \/ LoopEliminate
    \/ LoopAdvance
    \/ LoopReturn

\* the RrefResult of the call that returned goes out of scope
LoopDiscard == last.op = "rref_stats returned" /\ Discard

NextLoop == LoopBegin \/ LoopStep \/ LoopDiscard

SpecLoop == InitLoop /\ [][NextLoop]_vars

\* rref_stats is sequential code without blocking calls: a call that has been
\* entered keeps executing its statements
SpecLoopFair == InitLoop /\ [][NextLoop]_vars /\ WF_vars(LoopStep)

(***************************************************************************)
(* Reference mathematics over the rationals, against which the results of  *)
(* the calls are judged.  A reference matrix is a sequence of rows.        *)
(***************************************************************************)
QZero == <<0, 1>>
QOne == <<1, 1>>
QAdd(x, y) == Frac(x[1] * y[2] + y[1] * x[2], x[2] * y[2])
QSub(x, y) == Frac(x[1] * y[2] - y[1] * x[2], x[2] * y[2])
QMul(x, y) == Frac(x[1] * y[1], x[2] * y[2])
QDiv(x, y) == Frac(x[1] * y[2], x[2] * y[1])
QNeg(x) == QSub(QZero, x)

RECURSIVE QSum(_)
QSum(q) == IF q = <<>> THEN QZero ELSE QAdd(Head(q), QSum(Tail(q)))

RECURSIVE QProd(_)
QProd(q) == IF q = <<>> THEN QOne ELSE QMul(Head(q), QProd(Tail(q)))

Rows(x) ==
    SubSeq([i \in 1..x.rows |-> SubSeq(x.data, (i - 1) * x.cols + 1, i * x.cols)],
           1, x.rows)

RECURSIVE SortedSeq(_)
SortedSeq(S) ==
    IF S = {} THEN <<>>
    ELSE LET lo == CHOOSE e \in S : \A f \in S : e <= f
         IN  <<lo>> \o SortedSeq(S \ {lo})

\* the determinant of the n x n matrix A: the Leibniz sum, its terms grouped
\* by the column chosen in the first row (cofactor expansion)
WithoutFirstRowAndColumn(A, j) ==
    SubSeq([i \in 1..(Len(A) - 1) |->
              SubSeq(A[i + 1], 1, j - 1) \o SubSeq(A[i + 1], j + 1, Len(A))],
           1, Len(A) - 1)
RECURSIVE LeibnizDet(_, _)
LeibnizDet(A, n) ==
    IF n = 0 THEN QOne
    ELSE QSum([j \in 1..n |->
                 LET t == QMul(A[1][j], LeibnizDet(WithoutFirstRowAndColumn(A, j), n - 1))
                 IN  IF j % 2 = 1 THEN t ELSE QNeg(t)])

\* the k x k minor of A on the rows rs and the columns cs (increasing sequences)
Minor(A, rs, cs) ==
    LeibnizDet(SubSeq([i \in 1..Len(rs) |->
                         SubSeq([j \in 1..Len(cs) |-> A[rs[i]][cs[j]]], 1, Len(cs))],
                      1, Len(rs)),
               Len(rs))

\* the columns cs of A are linearly independent: some minor on them is not zero
ColumnsIndependent(A, cs) ==
    \E S \in SUBSET (1..Len(A)) :
        /\ Cardinality(S) = Len(cs)
        /\ Minor(A, SortedSeq(S), cs) # QZero

\* reduced row echelon shape
Lead(A, i) ==
    IF \A j \in 1..Len(A[i]) : A[i][j] = QZero THEN 0
    ELSE CHOOSE j \in 1..Len(A[i]) :
             A[i][j] # QZero /\ \A k \in 1..(j - 1) : A[i][k] = QZero

PivotIsOne(A) == \A i \in 1..Len(A) : Lead(A, i) # 0 => A[i][Lead(A, i)] = QOne
PivotAloneInColumn(A) ==
    \A i \in 1..Len(A) : Lead(A, i) # 0 =>
        \A k \in 1..Len(A) : k # i => A[k][Lead(A, i)] = QZero
PivotsIncrease(A) ==
    \A i, k \in 1..Len(A) :
        (i < k /\ Lead(A, i) # 0 /\ Lead(A, k) # 0) => Lead(A, i) < Lead(A, k)
ZeroRowsLast(A) ==
    \A i, k \in 1..Len(A) : (i < k /\ Lead(A, i) = 0) => Lead(A, k) = 0
InRREF(A) == PivotIsOne(A) /\ PivotAloneInColumn(A) /\ PivotsIncrease(A) /\ ZeroRowsLast(A)

\* E, in reduced row echelon shape, has the row space of A: every column of A
\* is the combination of the pivot columns of A that the column of E states,
\* and the pivot columns of A are independent
PivotCols(E) == SortedSeq({Lead(E, i) : i \in 1..Len(E)} \ {0})
RowEquivalent(A, E) ==
    LET ps == PivotCols(E)
    IN  /\ Len(A) = Len(E)
        /\ Len(A[1]) = Len(E[1])
        /\ \A r \in 1..Len(A) : \A j \in 1..Len(A[1]) :
               A[r][j] = QSum([i \in 1..Len(ps) |-> QMul(E[i][j], A[r][ps[i]])])
        /\ ColumnsIndependent(A, ps)

\* reference Gauss-Jordan elimination; it pivots on the last candidate row,
\* divides the pivot row and subtracts multiples of it from the other rows
RECURSIVE RefGJ(_, _, _)
RefGJ(A, r, c) ==
    IF r > Len(A) \/ c > Len(A[1]) THEN A
    ELSE LET cand == {i \in r..Len(A) : A[i][c] # QZero}
             n == Len(A[1])
         IN  IF cand = {} THEN RefGJ(A, r, c + 1)
             ELSE LET p == CHOOSE i \in cand : \A k \in cand : k <= i
                      prow == SubSeq([j \in 1..n |-> QDiv(A[p][j], A[p][c])], 1, n)
                      B == SubSeq([i \in 1..Len(A) |->
                                     IF i = r THEN prow
                                     ELSE LET src == IF i = p THEN A[r] ELSE A[i]
                                          IN  SubSeq([j \in 1..n |->
                                                        QSub(src[j], QMul(src[c], prow[j]))],
                                                     1, n)],
                                  1, Len(A))
                  IN  RefGJ(B, r + 1, c + 1)
RefGaussJordan(A) == RefGJ(A, 1, 1)

(***************************************************************************)
(* Claims.                                                                 *)
(***************************************************************************)
\* C1: rref() returns the reduced row echelon form of its matrix: a matrix of
\* the same dimensions in reduced row echelon shape that is row-equivalent to
\* the input and equal to the result of the reference Gauss-Jordan
\* elimination; the 3x4 example reduces to the expected matrix.
C1_RrefIsReducedForm ==
    last.op = "rref" =>
        /\ last.mat.rows = last.pre.rows /\ last.mat.cols = last.pre.cols
        /\ InRREF(Rows(last.mat))
        /\ RowEquivalent(Rows(last.pre), Rows(last.mat))
        /\ Rows(last.mat) = RefGaussJordan(Rows(last.pre))
        /\ (last.pre = RrefExample => last.mat = RrefExampleExpected)

C1_Witness ==
    last.op = "rref" /\ last.pre = RrefExample /\ last.mat = RrefExampleExpected

\* C2: the matrix returned by rref_stats() has reduced row echelon shape: each
\* pivot is one, is alone in its column, pivot columns increase with the row
\* index, and zero rows lie below the non-zero rows.
C2_RrefStatsShape ==
    last.op = "rref_stats" =>
        /\ PivotIsOne(Rows(last.mat))
        /\ PivotAloneInColumn(Rows(last.mat))
        /\ PivotsIncrease(Rows(last.mat))
        /\ ZeroRowsLast(Rows(last.mat))

\* a reduction that had to exchange rows, scale a pivot and leave a zero row
C2_Witness ==
    /\ last.op = "rref_stats"
    /\ last.swaps > 0
    /\ last.val # TOne
    /\ Lead(Rows(last.mat), 1) # 0
    /\ Lead(Rows(last.mat), last.mat.rows) = 0

\* C3: rref is idempotent: rref of a matrix that is itself an rref() result is
\* that matrix, and rref_stats() of a matrix in reduced row echelon shape
\* returns it unchanged with zero swaps and scale product one.
C3_RrefIdempotent ==
    /\ (last.op \in {"rref", "rref_stats"} /\ origin = "rref") => last.mat = last.pre
    /\ (last.op = "rref_stats" /\ InRREF(Rows(last.pre))) =>
           (last.mat = last.pre /\ last.swaps = 0 /\ last.val = TOne)
    /\ (last.op = "rref" /\ InRREF(Rows(last.pre))) => last.mat = last.pre

\* rref_stats() called on the rref() result of the 3x4 example
C3_Witness ==
    /\ origin = "rref"
    /\ last.op = "rref_stats"
    /\ last.pre = RrefExampleExpected
    /\ last.mat = RrefExampleExpected
    /\ last.swaps = 0
    /\ last.val = TOne

\* C4: for a square matrix with at least two rows det() returns the Leibniz
\* determinant; it is 0 for {{1,2},{2,4}}, -2 for {{1,2},{3,4}} and -480 for
\* the 4x4 matrix of the scenarios.
C4_DetIsDeterminant ==
    (last.op = "det" /\ last.pre.rows = last.pre.cols /\ last.pre.rows >= 2) =>
        /\ last.err = "none"
        /\ last.val = LeibnizDet(Rows(last.pre), last.pre.rows)
        /\ (last.pre = Singular => last.val = TFromInt(0))
        /\ (last.pre = TwoByTwo => last.val = TFromInt(-2))
        /\ (last.pre = FourByFour => last.val = TFromInt(-480))

C4_Witness ==
    last.op = "det" /\ last.pre = FourByFour /\ last.val = TFromInt(-480)

\* C5: for a square matrix and two distinct rows, det of the matrix with the
\* two rows exchanged by swap_rows is minus det of the matrix.
C5_SwapNegatesDet ==
    (last.op = "swap_rows;det" /\ last.arg[1] # last.arg[2]) =>
        /\ last.err = "none"
        /\ last.val = QNeg(last.vec[1])

C5_Witness ==
    /\ last.op = "swap_rows;det"
    /\ last.pre = TwoByTwo
    /\ last.arg = <<0, 1>>
    /\ last.vec = <<TFromInt(-2)>>
    /\ last.val = TFromInt(2)

\* C6: det() on a matrix that is not square throws invalid_argument without
\* running the elimination, and the matrix is unchanged.
C6_DetNonSquareThrows ==
    (last.op = "det" /\ last.pre.rows # last.pre.cols) =>
        /\ last.err = "invalid_argument"
        /\ ~last.flag
        /\ m = last.pre

C6_Witness ==
    /\ last.op = "det"
    /\ last.pre = RrefExample
    /\ last.err = "invalid_argument"
    /\ m = RrefExample

\* [A | b] as a reference matrix
RefAugment(A, b) == [i \in 1..Len(A) |-> Append(A[i], b[i])]
RefInconsistent(E) ==
    \E i \in 1..Len(E) :
        /\ \A j \in 1..(Len(E[i]) - 1) : E[i][j] = QZero
        /\ E[i][Len(E[i])] # QZero

\* C7: for a square matrix A with a unique solution (non-zero determinant) and
\* a vector b of length rows(A), solution(b) returns the vector x with
\* A * x = b, the last column of the reduced [A | b]; the 3x3 example gives
\* {1, 0, -1}.
C7_SolutionSolves ==
    (/\ last.op = "solution"
     /\ last.pre.rows = last.pre.cols
     /\ Len(last.arg) = last.pre.rows
     /\ LeibnizDet(Rows(last.pre), last.pre.rows) # QZero) =>
        \A A \in {Rows(last.pre)} :
        \A E \in {RefGaussJordan(RefAugment(A, last.arg))} :
            /\ last.err = "none"
            /\ last.flag
            /\ Len(last.vec) = last.pre.cols
            /\ \A r \in 1..Len(A) :
                   QSum([j \in 1..Len(A[r]) |-> QMul(A[r][j], last.vec[j])]) = last.arg[r]
            /\ \A i \in 1..Len(A) : last.vec[i] = E[i][Len(E[i])]
            /\ ((last.pre = SolveExample /\ last.arg = SolveExampleB)
                   => last.vec = SolveExampleX)

C7_Witness ==
    /\ last.op = "solution"
    /\ last.pre = SolveExample
    /\ last.arg = SolveExampleB
    /\ last.vec = SolveExampleX

\* C8: solution(b) throws invalid_argument exactly when the length of b is not
\* rows(A); when the reduced [A | b] has a row that is zero in the left block
\* and non-zero in the last column it returns the empty optional and throws
\* nothing.
C8_SolutionNoSolution ==
    last.op = "solution" =>
        /\ last.err \in {"none", "invalid_argument"}
        /\ last.err = "invalid_argument" <=> Len(last.arg) # last.pre.rows
        /\ (/\ Len(last.arg) = last.pre.rows
            /\ RefInconsistent(RefGaussJordan(RefAugment(Rows(last.pre), last.arg))))
               => (last.err = "none" /\ ~last.flag /\ last.vec = <<>>)

C8_Witness ==
    /\ last.op = "solution"
    /\ last.pre = Singular
    /\ last.arg = <<TFromInt(1), TFromInt(0)>>
    /\ last.err = "none"
    /\ ~last.flag

\* C9: linearly_independent() is true exactly when the rank of the matrix
\* equals its column count: the rank as the number of non-zero rows of the
\* reduced row echelon form, which is the rank of the columns; it is true for
\* the 3x3 example and false for {{1,2},{2,4}}.
RefRank(A) ==
    LET E == RefGaussJordan(A) IN Cardinality({i \in 1..Len(E) : Lead(E, i) # 0})
C9_LinearlyIndependentIsFullRank ==
    last.op = "linearly_independent" =>
        LET A == Rows(last.pre)
        IN  /\ last.flag <=> (RefRank(A) = last.pre.cols)
            /\ last.flag <=> ColumnsIndependent(A, [j \in 1..last.pre.cols |-> j])
            /\ (last.pre = SolveExample => last.flag)
            /\ (last.pre = Singular => ~last.flag)

C9_Witness ==
    last.op = "linearly_independent" /\ last.pre = SolveExample /\ last.flag

\* the reference row operations on a sequence of rows; rows are counted from 0
RefSwap(A, r1, r2) == [A EXCEPT ![r1 + 1] = A[r2 + 1], ![r2 + 1] = A[r1 + 1]]
RefScale(A, r, k) == [A EXCEPT ![r + 1] = [j \in 1..Len(A[r + 1]) |-> QMul(k, A[r + 1][j])]]
RefAdd(A, r1, r2, k) ==
    [A EXCEPT ![r2 + 1] =
        [j \in 1..Len(A[r2 + 1]) |-> QAdd(A[r2 + 1][j], QMul(k, A[r1 + 1][j]))]]
RefRowOp(A, e) ==
    IF e.op = "swap_rows" THEN RefSwap(A, e.rs[1], e.rs[2])
    ELSE IF e.op = "scale_row" THEN RefScale(A, e.rs[1], e.k)
    ELSE RefAdd(A, e.rs[1], e.rs[2], e.k)
RECURSIVE RefRowOps(_, _)
RefRowOps(A, es) == IF es = <<>> THEN A ELSE RefRowOps(RefRowOp(A, Head(es)), Tail(es))

\* the rows a call may change: both rows of a swap, the row scaled, the target
\* row of an addition
RowsNamed(c) ==
    IF c.op = "add_row" THEN {c.arg[2] + 1} ELSE {c.arg[i] + 1 : i \in 1..Len(c.arg)}

\* C10: after a sequence of valid swap_rows, scale_row and add_row calls the
\* matrix holds the result of the reference row operations applied in the same
\* order to the initial matrix; each call leaves rows() and cols() and every
\* row it does not name unchanged, and add_row(r, r, k) multiplies row r by
\* 1 + k.
C10_RowOpsRefineReference ==
    (\A i \in 1..Len(log) : log[i].err = "none") =>
        /\ m.rows = m0.rows /\ m.cols = m0.cols
        /\ Len(m.data) = m0.rows * m0.cols
        /\ Rows(m) = RefRowOps(Rows(m0), log)
        /\ last.op \in {"swap_rows", "scale_row", "add_row"} =>
               /\ m = last.mat
               /\ \A i \in (1..m.rows) \ RowsNamed(last) :
                      Rows(last.mat)[i] = Rows(last.pre)[i]
               /\ (last.op = "add_row" /\ last.arg[1] = last.arg[2]) =>
                      Rows(last.mat)[last.arg[1] + 1] =
                          [j \in 1..m.cols |->
                             QMul(QAdd(QOne, last.val), Rows(last.pre)[last.arg[1] + 1][j])]

\* swap_rows(0, 1) then add_row(1, 1, 2) on {{0,1},{2,3},{4,5}}
C10_Witness ==
    /\ m0 = ThreeByTwo
    /\ Len(log) = 2
    /\ log[1].op = "swap_rows" /\ log[1].rs = <<0, 1>> /\ log[1].err = "none"
    /\ log[2].op = "add_row" /\ log[2].rs = <<1, 1>> /\ log[2].k = TFromInt(2)
    /\ m = FromRows(<<<<2, 3>>, <<0, 3>>, <<4, 5>>>>)

\* C11: a swap_rows, scale_row or add_row call with a row index >= rows()
\* throws out_of_range and leaves every element of the matrix as it was, also
\* when the other index of the call is a valid row.
C11_RowOpOutOfRangeNoMutation ==
    (/\ last.op \in {"swap_rows", "scale_row", "add_row"}
     /\ \E i \in 1..Len(last.arg) : last.arg[i] >= last.pre.rows) =>
        /\ last.err = "out_of_range"
        /\ m = last.pre
        /\ last.mat = last.pre

\* swap_rows(0, 3) on a 3x2 matrix that an earlier add_row has changed
C11_Witness ==
    /\ Len(log) = 2
    /\ log[1].op = "add_row" /\ log[1].err = "none"
    /\ last.op = "swap_rows"
    /\ last.arg = <<0, 3>>
    /\ last.pre.rows = 3
    /\ last.pre # m0
    /\ last.err = "out_of_range"
    /\ m = last.pre

\* C12: Matrix(rows, cols, list) with rows > 0, cols > 0 and a list of
\* rows * cols elements constructs a matrix with rows() = rows, cols() = cols
\* and at(r, c) = list[r * cols + c] for every r < rows and c < cols.
C12_FlatListRowMajor ==
    (/\ last.op = "Matrix(rows,cols,list)"
     /\ last.arg[1] > 0 /\ last.arg[2] > 0
     /\ Len(last.vec) = last.arg[1] * last.arg[2]) =>
        /\ last.err = "none"
        /\ m.rows = last.arg[1]
        /\ m.cols = last.arg[2]
        /\ \A r \in 0..(m.rows - 1), c \in 0..(m.cols - 1) :
               at(m, r, c) = last.vec[r * m.cols + c + 1]

\* Matrix(2, 3, {0, 1, 2, 3, 4, 5}): three columns in two rows
C12_Witness ==
    /\ last.op = "Matrix(rows,cols,list)"
    /\ last.arg = <<2, 3>>
    /\ last.vec = Iota(6)
    /\ last.err = "none"
    /\ at(m, 0, 2) = TFromInt(2)
    /\ at(m, 1, 0) = TFromInt(3)

Transposed(columns) ==
    [r \in 1..Len(columns[1]) |-> [c \in 1..Len(columns) |-> columns[c][r]]]

\* a list of lists that is empty, has an empty member, or has members of
\* different lengths
Misaligned(list) ==
    \/ Len(list) = 0
    \/ \E i \in 1..Len(list) : Len(list[i]) = 0
    \/ \E i, j \in 1..Len(list) : Len(list[i]) # Len(list[j])

\* C14: from_columns on a non-empty list of equally long non-empty columns
\* constructs the matrix with cols() = number of columns, rows() = column
\* length and at(r, c) = columns[c][r], which is the matrix the constructor
\* from a list of rows builds from the transposed input; on an empty list, an
\* empty column or columns of different lengths it throws invalid_argument.
C14_FromColumnsTransposes ==
    last.op = "from_columns" =>
        IF Misaligned(last.vec)
        THEN last.err = "invalid_argument"
        ELSE /\ last.err = "none"
             /\ m.cols = Len(last.vec)
             /\ m.rows = Len(last.vec[1])
             /\ Len(m.data) = m.rows * m.cols
             /\ \A r \in 0..(m.rows - 1), c \in 0..(m.cols - 1) :
                    at(m, r, c) = last.vec[c + 1][r + 1]
             /\ Matrix_rows_list(Transposed(last.vec)).err = "none"
             /\ m = Matrix_rows_list(Transposed(last.vec)).m

\* from_columns({{0,1},{2,3},{4,5}}) is the matrix {{0,2,4},{1,3,5}}
C14_Witness ==
    /\ last.op = "from_columns"
    /\ last.vec = <<<<TFromInt(0), TFromInt(1)>>, <<TFromInt(2), TFromInt(3)>>,
                    <<TFromInt(4), TFromInt(5)>>>>
    /\ last.err = "none"
    /\ m = FromRows(<<<<0, 2, 4>>, <<1, 3, 5>>>>)

\* C15: the constructor from a list of rows throws invalid_argument exactly
\* when the list is empty, a row (the first or a later one) is empty, or two
\* rows differ in length; otherwise rows() is the number of rows and cols()
\* their common length.
C15_NestedListValidation ==
    last.op = "Matrix(rows)" =>
        /\ last.err \in {"none", "invalid_argument"}
        /\ last.err = "invalid_argument" <=> Misaligned(last.vec)
        /\ last.err = "none" =>
               /\ m.rows = Len(last.vec)
               /\ m.cols = Len(last.vec[1])
               /\ \A i \in 1..Len(last.vec) : Len(last.vec[i]) = m.cols

\* Matrix({{0, 1}, {2}}) throws: the second row is shorter than the first
C15_Witness ==
    /\ last.op = "Matrix(rows)"
    /\ last.vec = <<<<TFromInt(0), TFromInt(1)>>, <<TFromInt(2)>>>>
    /\ last.err = "invalid_argument"
    /\ m = Matrix_rows_cols(1, 1).m

\* C16: row_at(r) with r < rows() is a view of exactly cols() elements on
\* row r: after view[j] = v, at(r, j) is v and every other element and both
\* dimensions of the matrix are as before; row_at(r) with r >= rows() throws
\* out_of_range.
C16_RowAtAliasesRow ==
    last.op = "row_at" =>
        IF last.arg[1] >= last.pre.rows
        THEN last.err = "out_of_range" /\ m = last.pre
        ELSE /\ last.err = "none"
             /\ last.vec[2] = last.pre.cols
             /\ m.rows = last.pre.rows /\ m.cols = last.pre.cols
             /\ Len(m.data) = Len(last.pre.data)
             /\ at(m, last.arg[1], last.arg[2]) = last.val
             /\ \A r \in 0..(m.rows - 1), c \in 0..(m.cols - 1) :
                    <<r, c>> # last.arg => at(m, r, c) = at(last.pre, r, c)

\* row0 = m.row_at(0); row0[1] = 1234; on {{1,2,3},{4,5,6}}
C16_Witness ==
    /\ last.op = "row_at"
    /\ last.pre = RowAtTest
    /\ last.arg = <<0, 1>>
    /\ m = FromRows(<<<<1, 1234, 3>>, <<4, 5, 6>>>>)

\* C17: operator+ and operator+= on matrices of different dimensions, and
\* operator* with cols() of the left operand different from rows() of the
\* right one, throw invalid_argument, return nothing, and leave both operands,
\* the receiver of += included, as they were.
C17_MismatchedArithmeticThrows ==
    (\/ /\ last.op \in {"operator+", "operator+="}
        /\ (last.pre.rows # last.arg.rows \/ last.pre.cols # last.arg.cols)
     \/ /\ last.op = "operator*"
        /\ last.pre.cols # last.arg.rows) =>
        /\ last.err = "invalid_argument"
        /\ ~last.flag
        /\ m = last.pre
        /\ other = last.arg

\* {{0,1},{2,3},{4,5}} += a matrix of two rows
C17_Witness ==
    /\ last.op = "operator+="
    /\ last.pre = AddTestA
    /\ last.arg = AddTestBShort
    /\ last.err = "invalid_argument"
    /\ m = AddTestA

\* C18: for A of m x n and B of n x p, A * B is the m x p matrix whose entry
\* (i, j) is the sum over k of A(i, k) * B(k, j); A and B are left as they
\* were, and A times the n x n identity is A.
C18_ProductIsMatrixProduct ==
    (last.op = "operator*" /\ last.pre.cols = last.arg.rows) =>
        /\ last.err = "none"
        /\ last.mat.rows = last.pre.rows
        /\ last.mat.cols = last.arg.cols
        /\ Len(last.mat.data) = last.pre.rows * last.arg.cols
        /\ \A A \in {Rows(last.pre)} : \A B \in {Rows(last.arg)} :
           \A i \in 1..last.pre.rows, j \in 1..last.arg.cols :
               Rows(last.mat)[i][j] =
                   QSum([k \in 1..last.pre.cols |-> QMul(A[i][k], B[k][j])])
        /\ m = last.pre
        /\ other = last.arg
        /\ last.arg = IdentityOf(last.pre.cols) => last.mat = last.pre
        /\ (last.pre = MulTestA /\ last.arg = MulTestB) => last.mat = MulTestExpected

\* {{0,2,4},{1,3,5}} * {{6,9},{7,10},{8,11}} = {{46,64},{67,94}}
C18_Witness ==
    /\ last.op = "operator*"
    /\ last.pre = MulTestA
    /\ last.arg = MulTestB
    /\ last.mat = MulTestExpected

\* rows() >= 1, cols() >= 1 and a buffer of rows() * cols() elements
WellFormed(x) == x.rows >= 1 /\ x.cols >= 1 /\ Len(x.data) = x.rows * x.cols

\* C19: whatever constructions, copies, moves, assignments, arithmetic
\* operators, row operations and eliminations have been carried out, every
\* matrix value, also one that was moved from and the one inside an
\* RrefResult, has rows() >= 1, cols() >= 1 and a buffer of exactly
\* rows() * cols() elements.
C19_EveryMatrixWellFormed ==
    WellFormed(m) /\ WellFormed(other) /\ WellFormed(last.mat)

\* C20: unary minus of Rational returns the additive inverse: x + (-x) is
\* Rational(0) for every Rational x; hence the elimination step
\* add_row(r, row_idx, -f) of rref_stats on a Matrix<Rational> leaves the
\* entry at(row_idx, c) equal to Rational(0).
C20_NegationIsAdditiveInverse ==
    /\ last.op = "Rational::operator-" =>
           Rational_eq(last.vec[1], Rational_of_int(0))
    /\ last.op = "rref_stats elimination step" =>
           Rational_eq(last.val, Rational_of_int(0))

\* C21: Rational equality agrees with numeric equality: for all integers
\* n1, d1, n2, d2 with d1 # 0 and d2 # 0, of either sign,
\* Rational(n1, d1) == Rational(n2, d2) holds exactly when n1 * d2 = n2 * d1.
C21_EqualityIsNumericEquality ==
    last.op = "Rational::operator==" =>
        (last.flag <=> (last.arg[1] * last.arg[4] = last.arg[3] * last.arg[2]))

(***************************************************************************)
(* The iterations of the rref_stats loop, read from their records: what    *)
(* the working copy held on entry decides what the iteration has to do.    *)
(***************************************************************************)
InLoop == last.op \in {"rref_stats loop", "rref_stats returned"}

\* between two iterations: at the loop condition, or returned
AtLoopHead == InLoop /\ last.arg.pc = "for"

\* the rows r..R-1 whose entry in column c is not the additive identity
NonZeroRowsFrom(rec) ==
    {i \in rec.r..(rec.before.rows - 1) : Rows(rec.before)[i + 1][rec.c + 1] # QZero}

\* the lowest of them
FirstNonZeroRow(rec) ==
    CHOOSE i \in NonZeroRowsFrom(rec) : \A j \in NonZeroRowsFrom(rec) : i <= j

\* its entry in column c: what stands at (r, c) once that row has been brought up
PivotOf(rec) == Rows(rec.before)[FirstNonZeroRow(rec) + 1][rec.c + 1]

IsPivotStep(rec) == rec.kind = "pivot"
NeedsScaling(rec) == IsPivotStep(rec) /\ PivotOf(rec) # QOne
NeedsExchange(rec) == IsPivotStep(rec) /\ FirstNonZeroRow(rec) # rec.r

\* the pivots different from one, in the order of the iterations
ScaledPivots(q) ==
    LET sel == SelectSeq(q, NeedsScaling)
    IN  [k \in 1..Len(sel) |-> PivotOf(sel[k])]

\* the iterations that have run to their end
Completed == IF AtLoopHead THEN 1..Len(log) ELSE 1..(Len(log) - 1)

\* the working copy as iteration k left it
After(k) == IF k < Len(log) THEN log[k + 1].before ELSE last.mat

\* C22: the scale_prod of rref_stats is the product, over the pivot steps, of
\* the pivot value that stands at (r, c) after the exchange and before the
\* row is scaled, counting only the pivots different from one (the pivot
\* itself, not its inverse); it is one when no pivot needed scaling and it is
\* never zero; the value returned is that of the call rref_stats().
C22_ScaleProdIsProductOfPivots ==
    /\ AtLoopHead =>
           /\ last.val = QProd(ScaledPivots(log))
           /\ (SelectSeq(log, NeedsScaling) = <<>>) => last.val = QOne
    /\ InLoop => last.val # QZero
    /\ last.op = "rref_stats returned" => last.val = rref_stats(last.pre).scale_prod

\* a call that returned after a pivot step that exchanged rows and scaled the
\* row brought up, and a pivot step whose pivot was one already
C22_Witness ==
    /\ last.op = "rref_stats returned"
    /\ \E k \in 1..Len(log) : NeedsScaling(log[k]) /\ NeedsExchange(log[k])
    /\ \E k \in 1..Len(log) : IsPivotStep(log[k]) /\ ~NeedsScaling(log[k])
    /\ last.val # QOne

\* C23: in rref_stats the pivot row of column c is the lowest row i >= r with
\* a non-zero entry in column c: the iteration is a pivot step exactly when
\* such a row exists, it leaves that row, divided by its pivot, in row r and,
\* when i # r, the former row r in row i; swaps counts the pivot steps with
\* i # r, one each, and no others, and is the swaps of the call rref_stats();
\* swaps <= pivot steps <= min(R, C).
C23_FirstNonZeroPivotAndSwapCount ==
    InLoop =>
        /\ \A k \in 1..Len(log) :
              IsPivotStep(log[k]) <=> NonZeroRowsFrom(log[k]) # {}
        /\ \A k \in Completed :
              LET rec == log[k]
                  old == Rows(rec.before)
                  new == Rows(After(k))
              IN  IsPivotStep(rec) =>
                     /\ new[rec.r + 1] =
                           [j \in 1..rec.before.cols |->
                               QDiv(old[FirstNonZeroRow(rec) + 1][j], PivotOf(rec))]
                     /\ NeedsExchange(rec) =>
                           new[FirstNonZeroRow(rec) + 1] = old[rec.r + 1]
        /\ last.swaps = Len(SelectSeq(log, NeedsExchange))
        /\ last.op = "rref_stats returned" => last.swaps = rref_stats(last.pre).swaps
        /\ last.swaps <= Len(SelectSeq(log, IsPivotStep))
        /\ Len(SelectSeq(log, IsPivotStep)) <= last.mat.rows
        /\ Len(SelectSeq(log, IsPivotStep)) <= last.mat.cols

\* a call that returned after a pivot step that passed over a zero entry and
\* had two non-zero rows to choose from, and a pivot step without exchange
C23_Witness ==
    /\ last.op = "rref_stats returned"
    /\ \E k \in 1..Len(log) :
          NeedsExchange(log[k]) /\ Cardinality(NonZeroRowsFrom(log[k])) >= 2
    /\ \E k \in 1..Len(log) : IsPivotStep(log[k]) /\ ~NeedsExchange(log[k])
    /\ last.swaps = 1

\* C24: rref_stats terminates on every R x C matrix: a call whose loop has
\* been entered returns; the column cursor goes up by exactly one in every
\* iteration, pivot step or not, so that after k iterations c = k and k <= C;
\* at most min(R, C) of them are pivot steps; an iteration runs only with
\* r < R and c < C, and the loop is left with r >= R or c >= C.
C24_LoopTerminates ==
    /\ [](InLoop =>
            /\ AtLoopHead => last.arg.c = Len(log)
            /\ \A k \in 1..Len(log) :
                  /\ log[k].c = k - 1
                  /\ log[k].r \in 0..(last.mat.rows - 1)
                  /\ log[k].c \in 0..(last.mat.cols - 1)
            /\ Len(log) <= last.mat.cols
            /\ Len(SelectSeq(log, IsPivotStep)) <= last.mat.rows
            /\ Len(SelectSeq(log, IsPivotStep)) <= last.mat.cols
            /\ last.op = "rref_stats returned" =>
                  (last.arg.r >= last.mat.rows \/ last.arg.c >= last.mat.cols))
    /\ (last.op = "rref_stats loop") ~> (last.op = "rref_stats returned")

\* a call that returned after as many iterations as the matrix has columns,
\* some with a pivot and some without, with rows left over
C24_Witness ==
    /\ last.op = "rref_stats returned"
    /\ Len(log) = last.mat.cols
    /\ \E k \in 1..Len(log) : IsPivotStep(log[k])
    /\ \E k \in 1..Len(log) : ~IsPivotStep(log[k])
    /\ last.arg.r < last.mat.rows

\* the cursors r and c with which the iteration after iteration k is entered
\* (or with which the loop is left)
CursorAfter(k) ==
    IF k < Len(log) THEN <<log[k + 1].r, log[k + 1].c>> ELSE <<last.arg.r, last.arg.c>>

\* C25: in rref_stats, an iteration that finds only zeros in column c from
\* row r down performs no row operation, and the next iteration searches
\* column c + 1 with the same row r; for r = 0 the decrement wraps around to
\* the largest size_t value and the increment of the for statement restores
\* 0, for r > 0 the decrement gives r - 1; the row cursor lies in [0, R)
\* whenever the body of the loop runs, and in [0, R] at the loop condition;
\* the matrix returned is that of the call rref_stats().
C25_ZeroColumnKeepsPivotRow ==
    InLoop =>
        /\ \A k \in Completed :
              NonZeroRowsFrom(log[k]) = {} =>
                  /\ After(k) = log[k].before
                  /\ CursorAfter(k) = <<log[k].r, log[k].c + 1>>
                  /\ log[k].redo = IF log[k].r = 0 THEN SIZE_MAX ELSE log[k].r - 1
        /\ last.arg.r \in 0..last.mat.rows
        /\ last.arg.pc # "for" => last.arg.r \in 0..(last.mat.rows - 1)
        /\ \A k \in 1..Len(log) : log[k].r \in 0..(last.mat.rows - 1)
        /\ last.op = "rref_stats returned" => last.mat = rref_stats(last.pre).m

\* a call that returned after finding the first column zero with r = 0, where
\* the decrement wrapped around, and then a pivot for row 0 in the next column
C25_Witness ==
    /\ last.op = "rref_stats returned"
    /\ \E k \in 1..(Len(log) - 1) :
          /\ ~IsPivotStep(log[k])
          /\ log[k].r = 0
          /\ log[k].redo = SIZE_MAX
          /\ IsPivotStep(log[k + 1])
          /\ log[k + 1].r = 0
          /\ log[k + 1].c = log[k].c + 1

=============================================================================
